---------------------------- MODULE Spec2Model ----------------------------
(***************************************************************************)
(* Model of the log-to-Markov-model pipeline (extract_markov_chain.py) and *)
(* of the aggregate statistics script (extract_load_data_resume.py).       *)
(*                                                                         *)
(* A log line is represented by the outcome of LOG_PATTERN.search on it:   *)
(* either no match, or the groups (timestamp, user, method, endpoint).     *)
(* The timestamp group is represented by whether datetime.strptime accepts *)
(* it (ts_valid) and, if so, by the parsed instant as a number (ts).       *)
(* Python dicts (dict, defaultdict, Counter) keep insertion order and are  *)
(* sequences of [k, v] entries; Python sets have no order that the program *)
(* controls. A float ratio count / total is kept as the exact pair         *)
(* [num, den].                                                             *)
(***************************************************************************)
EXTENDS Naturals, Sequences, FiniteSets

VARIABLES
    script,            \* which program runs: "markov" | "resume" | "normalize"
    pc,                \* position of the running program
    log,               \* the lines of LOG_FILE consumed so far, in file order
    error,             \* the exception that ended the run, "" if none
    user_sequences,    \* markov: defaultdict(list) user -> [(ts, endpoint)]
    transitions,       \* markov: defaultdict(Counter) from -> to -> count
    transition_probs,  \* markov: dict from -> to -> count / total
    all_endpoints,     \* markov: set of endpoints
    initial_dist,      \* markov: dict endpoint -> probability
    totals,            \* markov: total_requests and total_transitions
    printed_matrix,    \* markov: rows written by print_transition_matrix
    markov_chain_data, \* markov: <<>> or <<document written by json.dump>>
    stats,             \* resume: endpoint_counts, method_counts, users, timestamps
    report,            \* resume: <<>> or <<figures printed by the main block>>
    endpoint,          \* normalize: the argument
    normalized         \* normalize: results returned by the two copies

vars == <<script, pc, log, error, user_sequences, transitions, transition_probs,
          all_endpoints, initial_dist, totals, printed_matrix, markov_chain_data,
          stats, report, endpoint, normalized>>

markov_vars == <<user_sequences, transitions, transition_probs, all_endpoints,
                 initial_dist, totals, printed_matrix, markov_chain_data>>

resume_vars == <<stats, report>>

normalize_vars == <<endpoint, normalized>>

---------------------------------------------------------------------------
(* Bounds of the model *)

MaxLines == 3

MaxTime == 2

---------------------------------------------------------------------------
(* Strings *)

\* str.startswith
StartsWith(s, prefix) ==
    /\ Len(s) >= Len(prefix)
    /\ SubSeq(s, 1, Len(prefix)) = prefix

\* The characters of endpoints in ascending code point order.
Alphabet == "/0123456789_abcdefghijklmnopqrstuvwxyz{}"

Ord(c) == CHOOSE n \in 1..Len(Alphabet) : SubSeq(Alphabet, n, n) = c

CharAt(s, n) == SubSeq(s, n, n)

\* str.__lt__: comparison by code points, a proper prefix first.
StrLess(a, b) ==
    \E n \in 1..(Len(b)) :
        /\ n <= Len(a) + 1
        /\ SubSeq(a, 1, n - 1) = SubSeq(b, 1, n - 1)
        /\ \/ n = Len(a) + 1
           \/ n <= Len(a) /\ Ord(CharAt(a, n)) < Ord(CharAt(b, n))

---------------------------------------------------------------------------
(* Python dict: insertion ordered sequence of entries *)

Entry(key, value) == [k |-> key, v |-> value]

Keys(d) == [n \in 1..Len(d) |-> d[n].k]

KeySet(d) == {d[n].k : n \in 1..Len(d)}

Values(d) == [n \in 1..Len(d) |-> d[n].v]

Has(d, key) == key \in KeySet(d)

Get(d, key) == d[CHOOSE n \in 1..Len(d) : d[n].k = key].v

\* d[key] = value: a new key goes last, an existing key keeps its place
Put(d, key, value) ==
    IF Has(d, key)
    THEN [n \in 1..Len(d) |-> IF d[n].k = key THEN Entry(key, value) ELSE d[n]]
    ELSE Append(d, Entry(key, value))

\* defaultdict.__getitem__ / Counter.__getitem__ read
GetOr(d, key, default) == IF Has(d, key) THEN Get(d, key) ELSE default

RECURSIVE SumSeq(_)
SumSeq(s) == IF s = <<>> THEN 0 ELSE Head(s) + SumSeq(Tail(s))

---------------------------------------------------------------------------
(* Log lines *)

NoMatch ==
    [match |-> FALSE, ts_valid |-> FALSE, ts |-> 0,
     user |-> "", method |-> "", endpoint |-> ""]

Record(valid, t, u, e) ==
    [match |-> TRUE, ts_valid |-> valid, ts |-> IF valid THEN t ELSE 0,
     user |-> u, method |-> "GET", endpoint |-> e]

Times == 1..MaxTime

Lines ==
    {NoMatch}
    \cup {Record(TRUE, t, u, e) :
              t \in Times, u \in {"alice", "bob"}, e \in {"/feed", "/like/3"}}
    \cup {Record(valid, 1, "anonymous", "/feed") : valid \in BOOLEAN}
    \cup {Record(valid, 1, "alice", "/login") : valid \in BOOLEAN}
    \cup {Record(FALSE, 0, "alice", "/feed")}

\* The end-to-end scenario: alice visits /feed, /like/3, /feed and bob
\* visits /feed, /profile/2, their lines interleaved in the file.
ScenarioLog ==
    << Record(TRUE, 1, "alice", "/feed"),
       Record(TRUE, 1, "bob", "/feed"),
       Record(TRUE, 2, "alice", "/like/3"),
       Record(TRUE, 2, "bob", "/profile/2"),
       Record(TRUE, 3, "alice", "/feed") >>

IsPrefix(s, t) == Len(s) <= Len(t) /\ SubSeq(t, 1, Len(s)) = s

\* The lines the file may hold after those read so far.
NextLines(read) ==
    (IF Len(read) < MaxLines THEN Lines ELSE {})
    \cup (IF Len(read) < Len(ScenarioLog) /\ IsPrefix(read, ScenarioLog)
          THEN {ScenarioLog[Len(read) + 1]} ELSE {})

---------------------------------------------------------------------------
(* extract_markov_chain.py *)

\* normalize_endpoint matching the prefixes without their final "/"
normalize_endpoint_NoSlash(ep) ==
    IF StartsWith(ep, "/profile") THEN "/profile/{user_id}"
    ELSE IF StartsWith(ep, "/like") THEN "/like/{post_id}"
    ELSE IF StartsWith(ep, "/follow") THEN "/follow/{user_id}"
    ELSE ep

normalize_endpoint(ep) ==
    IF StartsWith(ep, "/profile/") THEN "/profile/{user_id}"
    ELSE IF StartsWith(ep, "/like/") THEN "/like/{post_id}"
    ELSE IF StartsWith(ep, "/follow/") THEN "/follow/{user_id}"
    ELSE ep

\* Filtered without the "/login" test
Filtered_OnlyAnonymous(user, ep) == user = "anonymous"

\* line 55: the records parse_logs_for_markov ignores
Filtered(user, ep) == user = "anonymous" \/ ep = "/login"

\* list.sort(key=lambda x: x[0]) is stable: an element goes after every
\* element whose key is not greater than its own.
RECURSIVE InsertByTimestamp(_, _)
InsertByTimestamp(sorted, x) ==
    IF sorted = <<>> THEN <<x>>
    ELSE IF Head(sorted)[1] <= x[1]
         THEN <<Head(sorted)>> \o InsertByTimestamp(Tail(sorted), x)
         ELSE <<x>> \o sorted

\* A sort that puts an element before the elements of equal key
RECURSIVE InsertBeforeEqual(_, _)
InsertBeforeEqual(sorted, x) ==
    IF sorted = <<>> THEN <<x>>
    ELSE IF Head(sorted)[1] < x[1]
         THEN <<Head(sorted)>> \o InsertBeforeEqual(Tail(sorted), x)
         ELSE <<x>> \o sorted

RECURSIVE SortByTimestamp_Unstable(_)
SortByTimestamp_Unstable(seq) ==
    IF seq = <<>> THEN <<>>
    ELSE InsertBeforeEqual(SortByTimestamp_Unstable(SubSeq(seq, 1, Len(seq) - 1)),
                           seq[Len(seq)])

RECURSIVE SortByTimestamp(_)
SortByTimestamp(seq) ==
    IF seq = <<>> THEN <<>>
    ELSE InsertByTimestamp(SortByTimestamp(SubSeq(seq, 1, Len(seq) - 1)),
                           seq[Len(seq)])

\* The loop body with strptime called before the filter
ParseLine_ParseFirst(line) ==
    /\ script = "markov"
    /\ pc = "parse"
    /\ log' = Append(log, line)
    /\ IF ~line.match
       THEN UNCHANGED <<pc, error, user_sequences>>
       ELSE IF ~line.ts_valid
       THEN /\ pc' = "aborted"
            /\ error' = "ValueError: time data does not match format"
            /\ UNCHANGED user_sequences
       ELSE IF Filtered(line.user, line.endpoint)
       THEN UNCHANGED <<pc, error, user_sequences>>
       ELSE /\ user_sequences' =
                  Put(user_sequences, line.user,
                      Append(GetOr(user_sequences, line.user, <<>>),
                             <<line.ts, normalize_endpoint(line.endpoint)>>))
            /\ UNCHANGED <<pc, error>>
    /\ UNCHANGED <<script, transitions, transition_probs, all_endpoints,
                   initial_dist, totals, printed_matrix, markov_chain_data>>
    /\ UNCHANGED resume_vars
    /\ UNCHANGED normalize_vars

\* lines 47-61: one iteration of the loop over the file
ParseLine(line) ==
    /\ script = "markov"
    /\ pc = "parse"
    /\ log' = Append(log, line)
    /\ IF ~line.match \/ Filtered(line.user, line.endpoint)
       THEN UNCHANGED <<pc, error, user_sequences>>
       ELSE IF ~line.ts_valid
       THEN /\ pc' = "aborted"
            /\ error' = "ValueError: time data does not match format"
            /\ UNCHANGED user_sequences
       ELSE /\ user_sequences' =
                  Put(user_sequences, line.user,
                      Append(GetOr(user_sequences, line.user, <<>>),
                             <<line.ts, normalize_endpoint(line.endpoint)>>))
            /\ UNCHANGED <<pc, error>>
    /\ UNCHANGED <<script, transitions, transition_probs, all_endpoints,
                   initial_dist, totals, printed_matrix, markov_chain_data>>
    /\ UNCHANGED resume_vars
    /\ UNCHANGED normalize_vars

\* lines 63-67: at the end of the file the sequences are sorted and returned
ParseReturn ==
    /\ script = "markov"
    /\ pc = "parse"
    /\ user_sequences' =
           [n \in 1..Len(user_sequences) |->
               Entry(user_sequences[n].k, SortByTimestamp(user_sequences[n].v))]
    /\ pc' = "build"
    /\ UNCHANGED <<script, log, error, transitions, transition_probs,
                   all_endpoints, initial_dist, totals, printed_matrix,
                   markov_chain_data>>
    /\ UNCHANGED resume_vars
    /\ UNCHANGED normalize_vars

\* line 82: [ep for _, ep in sequence]
EndpointsOf(sequence) == [n \in 1..Len(sequence) |-> sequence[n][2]]

\* CountPair that also reads transitions[to_ep], which makes the defaultdict
\* create an empty Counter for it
CountPair_TouchesTarget(tr, from_ep, to_ep) ==
    LET row == GetOr(tr, from_ep, <<>>)
        counted == Put(tr, from_ep, Put(row, to_ep, GetOr(row, to_ep, 0) + 1))
    IN  IF Has(counted, to_ep) THEN counted
        ELSE Append(counted, Entry(to_ep, <<>>))

\* line 89: transitions[from_ep][to_ep] += 1
CountPair(tr, from_ep, to_ep) ==
    LET row == GetOr(tr, from_ep, <<>>)
    IN  Put(tr, from_ep, Put(row, to_ep, GetOr(row, to_ep, 0) + 1))

\* lines 86-89: for i in range(len(endpoints) - 1)
RECURSIVE CountSequence(_, _, _)
CountSequence(tr, endpoints, i) ==
    IF i > Len(endpoints) - 1 THEN tr
    ELSE CountSequence(CountPair(tr, endpoints[i], endpoints[i + 1]),
                       endpoints, i + 1)

\* lines 81-89: for user, sequence in user_sequences.items()
RECURSIVE CountUsers(_, _, _)
CountUsers(tr, us, n) ==
    IF n > Len(us) THEN tr
    ELSE CountUsers(CountSequence(tr, EndpointsOf(us[n].v), 1), us, n + 1)

RECURSIVE Concatenated(_)
Concatenated(us) ==
    IF us = <<>> THEN <<>>
    ELSE EndpointsOf(Head(us).v) \o Concatenated(Tail(us))

\* Counting over the users' sequences laid end to end
TransitionCounts_AcrossUsers(us) == CountSequence(<<>>, Concatenated(us), 1)

TransitionCounts(us) == CountUsers(<<>>, us, 1)

\* lines 79, 83: all_endpoints.update(endpoints) for every user
AllEndpoints(us) ==
    UNION {{us[n].v[m][2] : m \in 1..Len(us[n].v)} : n \in 1..Len(us)}

\* count / total, the exact ratio
Ratio(count, total) == [num |-> count, den |-> total]

\* The number of successors instead of the number of transitions
RowTotal_Successors(counter) == Len(counter)

\* line 94: sum(transitions[from_ep].values())
RowTotal(counter) == SumSeq(Values(counter))

\* lines 95-97: the probabilities of one row
RowProbabilities(counter) ==
    [m \in 1..Len(counter) |->
        Entry(counter[m].k, Ratio(counter[m].v, RowTotal(counter)))]

\* lines 92-97
TransitionProbabilities(tr) ==
    [n \in 1..Len(tr) |-> Entry(tr[n].k, RowProbabilities(tr[n].v))]

\* lines 78-99
BuildTransitionMatrix ==
    /\ script = "markov"
    /\ pc = "build"
    /\ transitions' = TransitionCounts(user_sequences)
    /\ all_endpoints' = AllEndpoints(user_sequences)
    /\ transition_probs' = TransitionProbabilities(transitions')
    /\ pc' = "initial"
    /\ UNCHANGED <<script, log, error, user_sequences, initial_dist, totals,
                   printed_matrix, markov_chain_data>>
    /\ UNCHANGED resume_vars
    /\ UNCHANGED normalize_vars

\* The last endpoint of every user instead of the first
FirstEndpoints_Last(us) ==
    LET nonempty == SelectSeq(us, LAMBDA e : e.v # <<>>)
    IN  [n \in 1..Len(nonempty) |-> nonempty[n].v[Len(nonempty[n].v)][2]]

\* lines 107-112: the first endpoint of every user with a request
FirstEndpoints(us) ==
    LET nonempty == SelectSeq(us, LAMBDA e : e.v # <<>>)
    IN  [n \in 1..Len(nonempty) |-> nonempty[n].v[1][2]]

\* Counter(iterable): keys in order of first occurrence
RECURSIVE CounterOf(_)
CounterOf(items) ==
    IF items = <<>> THEN <<>>
    ELSE LET c == CounterOf(SubSeq(items, 1, Len(items) - 1))
             x == items[Len(items)]
         IN  Put(c, x, GetOr(c, x, 0) + 1)

\* lines 114-121
InitialDistribution(us) ==
    LET counter == CounterOf(FirstEndpoints(us))
        total == SumSeq(Values(counter))
    IN  [n \in 1..Len(counter) |->
            Entry(counter[n].k, Ratio(counter[n].v, total))]

\* lines 102-121
CalculateInitialDistribution ==
    /\ script = "markov"
    /\ pc = "initial"
    /\ initial_dist' = InitialDistribution(user_sequences)
    /\ pc' = "report"
    /\ UNCHANGED <<script, log, error, user_sequences, transitions,
                   transition_probs, all_endpoints, totals, printed_matrix,
                   markov_chain_data>>
    /\ UNCHANGED resume_vars
    /\ UNCHANGED normalize_vars

\* sorted(strings)
RECURSIVE Sorted(_)
Sorted(S) ==
    IF S = {} THEN <<>>
    ELSE LET least == CHOOSE x \in S : \A y \in S \ {x} : StrLess(x, y)
         IN  <<least>> \o Sorted(S \ {least})

\* lines 126-138: the rows print_transition_matrix writes, in order
PrintedMatrix(probs, eps) ==
    LET sorted_endpoints == Sorted(eps)
        rows == SelectSeq(sorted_endpoints, LAMBDA from_ep : Has(probs, from_ep))
    IN  [n \in 1..Len(rows) |->
            LET row == Get(probs, rows[n])
                tos == Sorted(KeySet(row))
            IN  [from_ep |-> rows[n],
                 to |-> [m \in 1..Len(tos) |-> Entry(tos[m], Get(row, tos[m]))]]]

\* lines 171-209: the totals and the printed report
PrintReport ==
    /\ script = "markov"
    /\ pc = "report"
    /\ totals' =
           [total_requests |->
                SumSeq([n \in 1..Len(user_sequences) |-> Len(user_sequences[n].v)]),
            total_transitions |->
                SumSeq([n \in 1..Len(transitions) |-> SumSeq(Values(transitions[n].v))])]
    /\ printed_matrix' = PrintedMatrix(transition_probs, all_endpoints)
    /\ pc' = "export"
    /\ UNCHANGED <<script, log, error, user_sequences, transitions,
                   transition_probs, all_endpoints, initial_dist, markov_chain_data>>
    /\ UNCHANGED resume_vars
    /\ UNCHANGED normalize_vars

\* list(a set): the elements in an order the program does not control
Orderings(S) ==
    {s \in [1..Cardinality(S) -> S] : \A a, b \in 1..Cardinality(S) : s[a] = s[b] => a = b}

\* lines 212-225
ExportData(endpoints_list) ==
    [initial_distribution |-> initial_dist,
     transition_matrix |->
         [n \in 1..Len(transition_probs) |->
             Entry(transition_probs[n].k, transition_probs[n].v)],
     endpoints |-> endpoints_list,
     statistics |->
         [num_users |-> Len(user_sequences),
          total_requests |-> totals.total_requests,
          total_transitions |-> totals.total_transitions,
          num_endpoints |-> Cardinality(all_endpoints)]]

\* lines 212-230: json.dump writes the keys in the order the dicts hold them
Export ==
    /\ script = "markov"
    /\ pc = "export"
    /\ \E endpoints_list \in Orderings(all_endpoints) :
           markov_chain_data' = <<ExportData(endpoints_list)>>
    /\ pc' = "done"
    /\ UNCHANGED <<script, log, error, user_sequences, transitions,
                   transition_probs, all_endpoints, initial_dist, totals,
                   printed_matrix>>
    /\ UNCHANGED resume_vars
    /\ UNCHANGED normalize_vars

---------------------------------------------------------------------------
(* extract_load_data_resume.py *)

resume_normalize_endpoint(ep) ==
    IF StartsWith(ep, "/profile/") THEN "/profile/{user_id}"
    ELSE IF StartsWith(ep, "/like/") THEN "/like/{post_id}"
    ELSE IF StartsWith(ep, "/follow/") THEN "/follow/{user_id}"
    ELSE ep

\* defaultdict(int): d[key] += 1
Increment(d, key) == Put(d, key, GetOr(d, key, 0) + 1)

\* lines 37-52: one iteration of the loop over the file
ResumeParseLine(line) ==
    /\ script = "resume"
    /\ pc = "parse"
    /\ log' = Append(log, line)
    /\ IF ~line.match
       THEN UNCHANGED <<pc, error, stats>>
       ELSE IF ~line.ts_valid
       THEN /\ pc' = "aborted"
            /\ error' = "ValueError: time data does not match format"
            /\ UNCHANGED stats
       ELSE /\ stats' =
                  [timestamps |-> Append(stats.timestamps, line.ts),
                   users |-> stats.users \cup {line.user},
                   method_counts |-> Increment(stats.method_counts, line.method),
                   endpoint_counts |->
                       Increment(stats.endpoint_counts,
                                 resume_normalize_endpoint(line.endpoint))]
            /\ UNCHANGED <<pc, error>>
    /\ UNCHANGED <<script, report>>
    /\ UNCHANGED markov_vars
    /\ UNCHANGED normalize_vars

\* min / max of a list of instants
Minimum(s) == CHOOSE x \in {s[n] : n \in 1..Len(s)} : \A n \in 1..Len(s) : x <= s[n]

Maximum(s) == CHOOSE x \in {s[n] : n \in 1..Len(s)} : \A n \in 1..Len(s) : s[n] <= x

\* lines 57-85: the main block, once parse_logs has returned
ResumeMain ==
    /\ script = "resume"
    /\ pc = "parse"
    /\ IF stats.timestamps = <<>>
       THEN \* line 61: min([])
            /\ pc' = "aborted"
            /\ error' = "ValueError: min() arg is an empty sequence"
            /\ UNCHANGED report
       ELSE LET start_time == Minimum(stats.timestamps)
                end_time == Maximum(stats.timestamps)
                duration_sec == end_time - start_time
                total_requests == SumSeq(Values(stats.endpoint_counts))
            IN  IF duration_sec = 0
                THEN \* line 72: total_requests / duration_sec
                     /\ pc' = "aborted"
                     /\ error' = "ZeroDivisionError: float division by zero"
                     /\ report' = <<[start_time |-> start_time,
                                     end_time |-> end_time,
                                     duration_sec |-> duration_sec,
                                     total_requests |-> total_requests,
                                     rate |-> <<>>]>>
                ELSE /\ pc' = "done"
                     /\ error' = ""
                     /\ report' = <<[start_time |-> start_time,
                                     end_time |-> end_time,
                                     duration_sec |-> duration_sec,
                                     total_requests |-> total_requests,
                                     rate |-> <<Ratio(total_requests, duration_sec)>>]>>
    /\ UNCHANGED <<script, log, stats>>
    /\ UNCHANGED markov_vars
    /\ UNCHANGED normalize_vars

---------------------------------------------------------------------------
(* normalize_endpoint called on its own, in both scripts *)

Heads == {"profile", "like", "follow", "feed", "post", "login", "profiles", "lik"}

Tails == {"", "/", "/42", "/9", "/5/x"}

RawPaths == {"/" \o h \o t : h \in Heads, t \in Tails}

CallNormalize ==
    /\ script = "normalize"
    /\ normalized.markov = <<>>
    /\ normalized' = [normalized EXCEPT !.markov = <<normalize_endpoint(endpoint)>>]
    /\ UNCHANGED <<script, pc, log, error, endpoint>>
    /\ UNCHANGED markov_vars
    /\ UNCHANGED resume_vars

CallResumeNormalize ==
    /\ script = "normalize"
    /\ normalized.resume = <<>>
    /\ normalized' =
           [normalized EXCEPT !.resume = <<resume_normalize_endpoint(endpoint)>>]
    /\ UNCHANGED <<script, pc, log, error, endpoint>>
    /\ UNCHANGED markov_vars
    /\ UNCHANGED resume_vars

---------------------------------------------------------------------------

Start ==
    /\ pc = "parse"
    /\ log = <<>>
    /\ error = ""
    /\ user_sequences = <<>>
    /\ transitions = <<>>
    /\ transition_probs = <<>>
    /\ all_endpoints = {}
    /\ initial_dist = <<>>
    /\ totals = [total_requests |-> 0, total_transitions |-> 0]
    /\ printed_matrix = <<>>
    /\ markov_chain_data = <<>>
    /\ stats = [endpoint_counts |-> <<>>, method_counts |-> <<>>,
                users |-> {}, timestamps |-> <<>>]
    /\ report = <<>>
    /\ normalized = [markov |-> <<>>, resume |-> <<>>]

Init ==
    /\ script \in {"markov", "resume"}
    /\ endpoint = ""
    /\ Start

Next ==
    \/ \E line \in NextLines(log) : ParseLine(line)
    \/ ParseReturn
    \/ BuildTransitionMatrix
    \/ CalculateInitialDistribution
    \/ PrintReport
    \/ Export
    \/ \E line \in NextLines(log) : ResumeParseLine(line)
    \/ ResumeMain

Spec == Init /\ [][Next]_vars

InitNormalize ==
    /\ script = "normalize"
    /\ endpoint \in RawPaths
    /\ Start

NextNormalize ==
    \/ CallNormalize
    \/ CallResumeNormalize

SpecNormalize == InitNormalize /\ [][NextNormalize]_vars

---------------------------------------------------------------------------
(* What the properties speak of, stated from the log and from the          *)
(* sequences rather than from the operators above                          *)

\* parse_logs_for_markov has returned
Parsed == script = "markov" /\ pc \in {"build", "initial", "report", "export", "done"}

\* build_transition_matrix has returned
Built == script = "markov" /\ pc \in {"initial", "report", "export", "done"}

\* calculate_initial_distribution has returned
Estimated == script = "markov" /\ pc \in {"report", "export", "done"}

\* A record the Markov script keeps: matched, authenticated, not "/login"
Usable(l) == l.match /\ l.user # "anonymous" /\ l.endpoint # "/login"

UsableIndices(u) == {k \in 1..Len(log) : Usable(log[k]) /\ log[k].user = u}

\* The kept events of an actor in the order of their lines
KeptEvents(u) ==
    LET kept == SelectSeq(log, LAMBDA l : Usable(l) /\ l.user = u)
    IN  [n \in 1..Len(kept) |-> <<kept[n].ts, normalize_endpoint(kept[n].endpoint)>>]

StateIds ==
    {"/feed", "/post", "/login", "/like/{post_id}", "/profile/{user_id}",
     "/follow/{user_id}"}

\* Adjacent pairs (i, i+1) with states a, b inside one actor's sequence
AdjacentPairs(a, b) ==
    {p \in UNION {{<<n, i>> : i \in 1..(Len(user_sequences[n].v) - 1)} :
                      n \in 1..Len(user_sequences)} :
        /\ user_sequences[p[1]].v[p[2]][2] = a
        /\ user_sequences[p[1]].v[p[2] + 1][2] = b}

PairCount(a, b) == Cardinality(AdjacentPairs(a, b))

Outgoing(a) == UNION {AdjacentPairs(a, b) : b \in StateIds}

StoredCount(a, b) == GetOr(GetOr(transitions, a, <<>>), b, 0)

NoDuplicateKeys(d) == \A m, n \in 1..Len(d) : d[m].k = d[n].k => m = n

Ascending(s) == \A m, n \in 1..Len(s) : m < n => StrLess(s[m], s[n])

TimeError == "ValueError: time data does not match format"

---------------------------------------------------------------------------

\* C1: after parse_logs_for_markov no sequence holds an event of a record
\* whose actor is "anonymous" or whose raw endpoint is "/login": every actor
\* has exactly as many events as it has usable records, none in state
\* "/login"; "anonymous" is no key, and the keys are exactly the actors with
\* at least one kept event, each with a non-empty list.
C1_Filtering ==
    Parsed =>
        /\ ~Has(user_sequences, "anonymous")
        /\ NoDuplicateKeys(user_sequences)
        /\ KeySet(user_sequences) = {log[k].user : k \in {j \in 1..Len(log) : Usable(log[j])}}
        /\ \A n \in 1..Len(user_sequences) :
              /\ user_sequences[n].v # <<>>
              /\ Len(user_sequences[n].v) = Cardinality(UsableIndices(user_sequences[n].k))
              /\ \A m \in 1..Len(user_sequences[n].v) :
                    user_sequences[n].v[m][2] # "/login"

\* A parsed log with an anonymous record, a "/login" record and a kept one
C1_Witness ==
    /\ Parsed
    /\ \E j, k, m \in 1..Len(log) :
          /\ log[j].match /\ log[j].ts_valid /\ log[j].user = "anonymous"
          /\ log[k].match /\ log[k].ts_valid /\ log[k].endpoint = "/login"
          /\ Usable(log[m])

\* C2: count[a][b] is the number of adjacent index pairs (i, i+1) inside a
\* single actor's sequence with states a then b, summed over actors; the
\* end of one actor's sequence and the start of another's make no pair. In
\* the end-to-end scenario the counts are feed->like 1, like->feed 1,
\* feed->profile 1 and nothing else.
C2_TransitionCounts ==
    Built =>
        /\ \A a, b \in StateIds : StoredCount(a, b) = PairCount(a, b)
        /\ KeySet(transitions) \subseteq StateIds
        /\ \A n \in 1..Len(transitions) : KeySet(transitions[n].v) \subseteq StateIds
        /\ log = ScenarioLog =>
              /\ StoredCount("/feed", "/like/{post_id}") = 1
              /\ StoredCount("/like/{post_id}", "/feed") = 1
              /\ StoredCount("/feed", "/profile/{user_id}") = 1
              /\ SumSeq([n \in 1..Len(transitions) |->
                            SumSeq(Values(transitions[n].v))]) = 3

\* The end-to-end scenario, counted
C2_Witness == Built /\ log = ScenarioLog /\ Len(user_sequences) = 2

\* C3: for every fromState with outgoing total T > 0 the probability stored
\* for each toState is count / T, it lies in (0, 1], and the row sums to 1.
C3_RowProbabilities ==
    Built =>
        \A n \in 1..Len(transition_probs) :
            LET from_ep == transition_probs[n].k
                row == transition_probs[n].v
                T == Cardinality(Outgoing(from_ep))
            IN  /\ T > 0
                /\ \A m \in 1..Len(row) :
                      /\ row[m].v.num = PairCount(from_ep, row[m].k)
                      /\ row[m].v.den = T
                      /\ 0 < row[m].v.num
                      /\ row[m].v.num <= row[m].v.den
                /\ SumSeq([m \in 1..Len(row) |-> row[m].v.num]) = T

\* A row with two successors, each with a probability below 1
C3_Witness ==
    /\ Built
    /\ \E n \in 1..Len(transition_probs) :
          /\ Len(transition_probs[n].v) >= 2
          /\ \A m \in 1..Len(transition_probs[n].v) :
                transition_probs[n].v[m].v.num < transition_probs[n].v[m].v.den

\* C4: a state has a row in the probability table iff it has at least one
\* counted outgoing transition; a state seen only as the last event of
\* sequences has no row (no empty row, no self-loop), yet is in the state
\* space.
C4_RowsOnlyForOutgoing ==
    Built =>
        /\ NoDuplicateKeys(transition_probs)
        /\ KeySet(transition_probs) = {a \in StateIds : Outgoing(a) # {}}
        /\ \A n \in 1..Len(transition_probs) : transition_probs[n].v # <<>>
        /\ \A n \in 1..Len(user_sequences) :
              LET seq == user_sequences[n].v
                  last == seq[Len(seq)][2]
              IN  /\ last \in all_endpoints
                  /\ Outgoing(last) = {} => ~Has(transition_probs, last)
                  /\ PairCount(last, last) = 0 =>
                        ~Has(GetOr(transition_probs, last, <<>>), last)

\* An actor with a single event whose state has no row
C4_Witness ==
    /\ Built
    /\ \E n \in 1..Len(user_sequences) :
          /\ Len(user_sequences[n].v) = 1
          /\ user_sequences[n].v[1][2] \in all_endpoints
          /\ ~Has(transition_probs, user_sequences[n].v[1][2])
    /\ transition_probs # <<>>

\* The state of the earliest kept record of an actor, the first line winning ties
FirstState(u) ==
    LET k0 == CHOOSE k \in UsableIndices(u) :
                  \A j \in UsableIndices(u) :
                      \/ log[k].ts < log[j].ts
                      \/ log[k].ts = log[j].ts /\ k <= j
    IN  normalize_endpoint(log[k0].endpoint)

Actors == {u \in {"alice", "bob", "anonymous"} : UsableIndices(u) # {}}

Starting(s) == {u \in Actors : FirstState(u) = s}

\* C5: given at least one non-empty sequence, the initial distribution gives
\* each state s the number of actors whose time-ordered sequence starts with
\* s over the number of actors with a non-empty sequence; filtered-out
\* actors contribute nothing, states that start no sequence have no entry,
\* and the values sum to 1.
C5_InitialDistribution ==
    (Estimated /\ Actors # {}) =>
        /\ NoDuplicateKeys(initial_dist)
        /\ \A s \in StateIds :
              IF Starting(s) # {}
              THEN /\ Has(initial_dist, s)
                   /\ Get(initial_dist, s) =
                          [num |-> Cardinality(Starting(s)), den |-> Cardinality(Actors)]
              ELSE ~Has(initial_dist, s)
        /\ KeySet(initial_dist) \subseteq StateIds
        /\ SumSeq([n \in 1..Len(initial_dist) |-> initial_dist[n].v.num])
               = Cardinality(Actors)

\* Two actors starting in different states, beside a filtered-out actor
C5_Witness ==
    /\ Estimated
    /\ Len(initial_dist) = 2
    /\ \E k \in 1..Len(log) : log[k].match /\ log[k].user = "anonymous"

\* C6: every returned sequence has non-decreasing timestamps, is a
\* permutation of the actor's kept events, and keeps events of equal
\* timestamp in the order of their lines.
C6_StableSequences ==
    Parsed =>
        \A n \in 1..Len(user_sequences) :
            LET seq == user_sequences[n].v
                kept == KeptEvents(user_sequences[n].k)
            IN  /\ \A i, j \in 1..Len(seq) : i < j => seq[i][1] <= seq[j][1]
                /\ Len(seq) = Len(kept)
                /\ \A t \in {kept[i][1] : i \in 1..Len(kept)} \cup {seq[i][1] : i \in 1..Len(seq)} :
                      SelectSeq(seq, LAMBDA x : x[1] = t)
                          = SelectSeq(kept, LAMBDA x : x[1] = t)

\* An actor whose lines are out of time order and hold a tie
C6_Witness ==
    /\ Parsed
    /\ \E n \in 1..Len(user_sequences) :
          LET seq == user_sequences[n].v
          IN  /\ seq # KeptEvents(user_sequences[n].k)
              /\ \E i, j \in 1..Len(seq) :
                    i < j /\ seq[i][1] = seq[j][1] /\ seq[i][2] # seq[j][2]

\* Every line read is unmatched or (in the Markov script) filtered out
NoUsableRecord ==
    \A k \in 1..Len(log) :
        \/ ~log[k].match
        \/ script = "markov" /\ ~Usable(log[k])

\* C7: when zero usable records survive, the run ends in an explicit
\* EmptyInputError with no output document; it never reaches the export
\* step and never fails through an operation on an empty collection.
C7_EmptyInputError ==
    (script \in {"markov", "resume"} /\ NoUsableRecord) =>
        /\ pc # "export"
        /\ pc \in {"done", "aborted"} =>
              /\ pc = "aborted"
              /\ error = "EmptyInputError"
              /\ markov_chain_data = <<>>

MalformedIndices == {k \in 1..Len(log) : log[k].match /\ ~log[k].ts_valid}

Templated(head, tail) ==
    IF tail = "" THEN "/" \o head
    ELSE IF head = "profile" THEN "/profile/{user_id}"
    ELSE IF head = "like" THEN "/like/{post_id}"
    ELSE IF head = "follow" THEN "/follow/{user_id}"
    ELSE "/" \o head \o tail

\* C9: /profile/<id>, /like/<id>, /follow/<id> map to their templates, every
\* other path (also the bare /profile, /like, /follow) is returned
\* unchanged, and the two copies of normalize_endpoint agree.
C9_Normalization ==
    script = "normalize" =>
        \A head \in Heads, tail \in Tails :
            endpoint = "/" \o head \o tail =>
                /\ normalized.markov # <<>> =>
                      normalized.markov = <<Templated(head, tail)>>
                /\ normalized.resume # <<>> =>
                      normalized.resume = <<Templated(head, tail)>>
                /\ (normalized.markov # <<>> /\ normalized.resume # <<>>) =>
                      normalized.markov = normalized.resume

\* Both copies have normalized a parameterized path
C9_Witness ==
    /\ script = "normalize"
    /\ endpoint = "/profile/42"
    /\ normalized.markov = <<"/profile/{user_id}">>
    /\ normalized.resume = <<"/profile/{user_id}">>

\* C10: the exported "endpoints" list, the keys of the exported
\* "transition_matrix" and of each of its rows, and the printed matrix are
\* in ascending lexicographic order of state identifier.
C10_LexicographicOutputs ==
    /\ \A n \in 1..Len(printed_matrix) :
          Ascending([m \in 1..Len(printed_matrix[n].to) |-> printed_matrix[n].to[m].k])
    /\ Ascending([n \in 1..Len(printed_matrix) |-> printed_matrix[n].from_ep])
    /\ markov_chain_data # <<>> =>
          /\ Ascending(markov_chain_data[1].endpoints)
          /\ Ascending(Keys(markov_chain_data[1].transition_matrix))
          /\ \A n \in 1..Len(markov_chain_data[1].transition_matrix) :
                Ascending(Keys(markov_chain_data[1].transition_matrix[n].v))

=============================================================================
